---- MODULE Spec2Model ----
(***************************************************************************)
(* Model of app.py: the Telegram webhook of the event-poster bot, its      *)
(* media conversion, the provider adapters and the failover dispatcher     *)
(* extract_event_info with the process-wide failed_keys sets.              *)
(*                                                                         *)
(* Strings built by the program (messages, exception texts) are modelled   *)
(* as tuples of their parts, so that an f-string is a concatenation.       *)
(***************************************************************************)
EXTENDS Integers, Sequences, FiniteSets, TLC

(* ---------------------------------------------------------------- bounds *)

\* Most credential entries GEMINI_KEYS and OPENROUTER_KEYS hold together.
MaxEntries == 3
\* The same, for the runs in which two requests interleave.
MaxEntriesConc == 2
\* Requests served by the process in one run.
MaxRequests == 2
\* Most pages of a submitted PDF.
MaxPages == 2

\* Image sides are sampled around the multiples of half the size limit, up to
\* this many halves.
MaxMultiple == 4

\* Lines 85-86: the size limit of image_to_base64.
MaxSide == 2000

(* ------------------------------------------------------ static structure *)

\* The keys of AI_PROVIDERS.
Provider == {"gemini", "openrouter", "groq"}

\* providers_order with the two providers exchanged.
providers_order_swapped == <<"openrouter", "gemini">>

\* providers_order of extract_event_info.
providers_order == <<"gemini", "openrouter">>

\* Credential strings an environment entry can hold: empty, whitespace only,
\* and two distinct secrets.
Cred == {"", " ", "a", "b"}

\* str.strip() on the credential strings of the model.
Strip(k) == IF k = " " THEN "" ELSE k

\* Secrets are interchangeable: a list names them in order of first use.
NamedInOrder(ks) ==
    \A i \in 1..Len(ks) : ks[i] = "b" => \E j \in 1..(i - 1) : ks[j] = "a"

\* Results of os.environ.get(...).split(',') with at most n entries: never
\* an empty list.
KeyLists(n) == {ks \in UNION {[1..m -> Cred] : m \in 1..n} : NamedInOrder(ks)}

\* The registries with at most n credential entries for the two providers
\* the dispatcher visits. groq, which it never visits, has GROQ_KEYS unset
\* or holding one secret.
Registries(n) ==
    {ks \in [Provider -> KeyLists(n)] :
        /\ Len(ks["gemini"]) + Len(ks["openrouter"]) <= n
        /\ ks["groq"] \in {<<"">>, <<"a">>}}

\* The 'active' flags: groq is disabled (line 34); the flags of the two
\* providers the dispatcher visits are configuration.
Flags == {f \in [Provider -> BOOLEAN] : ~f["groq"]}

\* Worker threads of the server; the sequential server uses only the first.
Req == {"w1", "w2"}
MainThread == "w1"

\* The text a provider generates when called with a credential.
GeneratedText(provider_name, api_key) == <<"article", provider_name, api_key>>

\* The updates Telegram may deliver, by the branch of webhook they select,
\* and the GET /health query.
Update == {"no_message", "malformed", "start", "help", "photo", "pdf",
           "other_document", "no_media", "health"}

None == <<"None">>

(* ------------------------------------------------------------- variables *)

VARIABLES
    image,        \* the image image_to_base64 is working on: stage and size
    keys,         \* AI_PROVIDERS[p]['keys']
    active,       \* AI_PROVIDERS[p]['active']
    failed_keys,  \* failed_keys[p]
    pc,           \* where each worker is in its request
    update,       \* the request a worker is serving
    pi,           \* index into providers_order of the running dispatcher
    ki,           \* index into provider['keys'] of the running dispatcher
    exc,          \* the exception being handled (line 240)
    result,       \* what extract_event_info returned or raised
    response,     \* the HTTP response of the request
    trace,        \* what the request did so far: messages sent, adapter calls
    startFailed,  \* failed_keys as it was when the dispatcher was entered
    served        \* requests received so far

vars == <<image, keys, active, failed_keys, pc, update, pi, ki, exc, result,
          response, trace, startFailed, served>>

(* ---------------------------------------------------------------- events *)

Event(ev, prov, key, val, flag) ==
    [ev |-> ev, prov |-> prov, key |-> key, val |-> val, flag |-> flag]

\* send_telegram_message(chat_id, text): the text reaches the chat; errors of
\* the transport are swallowed (lines 49-54).
SendEvent(text) == Event("send", "", "", text, FALSE)

\* An adapter invocation: its provider and credential, whether it returned,
\* the text it returned, and whether the credential was in failed_keys when
\* the invocation began.
InvokeEvent(prov, key, ok, val, stale) ==
    [ev |-> IF ok THEN "invoke_ok" ELSE "invoke_err", prov |-> prov,
     key |-> key, val |-> val, flag |-> stale]

\* A call of the Media Normalizer (image_to_base64, pdf_to_images) and what
\* it returned.
ConvertEvent(base64_image) == Event("convert", "", "", base64_image, FALSE)

\* A call of download_file and whether it returned the bytes.
DownloadEvent(ok) == Event("download", "", "", <<>>, ok)

AddEvent(prov, key) == Event("add", prov, key, <<>>, FALSE)

IsInvoke(e) == e.ev \in {"invoke_ok", "invoke_err"}

(* -------------------------------------------------------------- messages *)

WelcomeText == <<"Welcome to Event Poster to Article Bot!">>
HelpText == <<"Event Poster Bot Help">>
ProcessingImageText == <<"Processing your image... Please wait.">>
ProcessingPdfText == <<"Processing your PDF... This may take a moment.">>
PdfFailedText == <<"Failed to convert PDF.">>
NotPdfText == <<"Please send an image (JPEG/PNG) or PDF file.">>
NoMediaText == <<"Please send an event poster">>
SuccessText == <<"Article generated successfully!">>
AllFailedText == <<"All AI providers failed. Please verify:">>

\* error_msg of webhook (line 334).
ErrorMsg(e) == <<"Error processing image">> \o e \o <<"Please try:">>

(* ------------------------------------------------------ media conversion *)

\* What download_file may return for a photo: bytes PIL can or cannot open.
ImageBytes == [decodable : BOOLEAN]

\* What download_file may return for a document: bytes pdf2image can or
\* cannot read, with the pages of the document.
PdfBytes == [readable : BOOLEAN, pages : 0..MaxPages]

\* Python truthiness of an Optional[str].
Truthy(x) == x # None /\ x # <<>>

\* convert_from_bytes(pdf_bytes, first_page=1, last_page=1): the rendered
\* pages among the first one.
convert_from_bytes(pdf) ==
    [i \in 1..(IF pdf.pages >= 1 THEN 1 ELSE 0) |-> <<"page", i>>]

\* pdf_to_images: the encoded first page, None on an exception or when
\* nothing was rendered.
pdf_to_images(pdf) ==
    IF ~pdf.readable THEN None
    ELSE LET images == convert_from_bytes(pdf)
         IN  IF Len(images) > 0 THEN <<"jpeg95", "page1">> ELSE None

\* image_to_base64: the re-encoded image, None on an exception.
\* The widths and heights of the images considered: a few small ones and the
\* neighbours of the multiples of half the limit.
Sides ==
    {1, 3, 7} \cup {m * (MaxSide \div 2) + d : m \in 1..MaxMultiple, d \in -1..1}

NoImage == [stage |-> "none", decodable |-> FALSE, size |-> <<0, 0>>, out |-> <<0, 0>>]

Abs(n) == IF n < 0 THEN -n ELSE n

\* A test that resizes only when both sides exceed the limit.
NeedsResizeBoth(size) == size[1] > MaxSide /\ size[2] > MaxSide

\* Line 85: img.width > 2000 or img.height > 2000.
NeedsResize(size) == size[1] > MaxSide \/ size[2] > MaxSide

\* Image.thumbnail's round_aspect for the quotient num / den: the floor or
\* the ceiling, whichever of lo and hi (their keys, over a common
\* denominator) is smaller, the floor on a tie, and at least 1.
round_aspect(num, den, lo, hi) ==
    LET floor == num \div den
        ceil == IF num % den = 0 THEN floor ELSE floor + 1
        n == IF lo <= hi THEN floor ELSE ceil
    IN  IF n < 1 THEN 1 ELSE n

\* Line 86: img.thumbnail(box): the largest size of the image's aspect ratio
\* that fits the box; the image is left alone when it already fits.
\*   aspect = width / height
\*   x / y >= aspect:  x = round_aspect(y * aspect, key |aspect - n / y|)
\*   otherwise:        y = round_aspect(x / aspect, key 0 if n = 0 else |aspect - x / n|)
thumbnail(size, box) ==
    LET w == size[1]
        h == size[2]
        x == box[1]
        y == box[2]
    IN  IF x >= w /\ y >= h THEN size
        ELSE IF x * h >= w * y
        THEN \* |w/h - n/y| compared as |w*y - n*h|
             LET f == (y * w) \div h
             IN  <<round_aspect(y * w, h, Abs(w * y - f * h), Abs(w * y - (f + 1) * h)), y>>
        ELSE \* |w/h - x/n| compared as |w*n - x*h| / n, cross-multiplied
             LET f == (x * h) \div w
             IN  <<x, round_aspect(x * h, w,
                                   IF f = 0 THEN 0 ELSE Abs(w * f - x * h) * (f + 1),
                                   Abs(w * (f + 1) - x * h) * f)>>

\* Lines 83-86: the size of the image that line 89 saves.
SavedSize(size) ==
    IF NeedsResize(size) THEN thumbnail(size, <<MaxSide, MaxSide>>) ELSE size

image_to_base64(img) ==
    IF img.decodable THEN <<"jpeg90", "image">> ELSE None

(* -------------------------------------------------------------- adapters *)

\* What requests.post may do for an adapter: raise (transport error or
\* timeout), or return a status and a body whose nested fields are present
\* (with the generated text) or absent.
Response(provider_name, api_key) ==
    {[kind |-> "transport_error", status |-> 0, wellformed |-> FALSE, text |-> <<>>]}
    \cup {[kind |-> "http", status |-> 200, wellformed |-> TRUE,
           text |-> GeneratedText(provider_name, api_key)]}
    \cup {[kind |-> "http", status |-> 200, wellformed |-> FALSE, text |-> <<"{}">>]}
    \cup {[kind |-> "http", status |-> 429, wellformed |-> FALSE, text |-> <<"quota">>]}

\* str(response.status_code)
Str(status) == IF status = 200 THEN "200" ELSE IF status = 429 THEN "429" ELSE "0"

Return(v) == [ok |-> TRUE, val |-> v]
Raise(e) == [ok |-> FALSE, val |-> e]

call_gemini(api_key, resp) ==
    IF resp.kind = "transport_error" THEN Raise(<<"ConnectionError">>)
    ELSE IF resp.status = 200
         THEN IF resp.wellformed THEN Return(resp.text) ELSE Raise(<<"KeyError">>)
         ELSE Raise(<<"Gemini API error: ", Str(resp.status), " - ">> \o resp.text)

call_openrouter(api_key, resp) ==
    IF resp.kind = "transport_error" THEN Raise(<<"ConnectionError">>)
    ELSE IF resp.status = 200
         THEN IF resp.wellformed THEN Return(resp.text) ELSE Raise(<<"KeyError">>)
         ELSE Raise(<<"OpenRouter API error: ", Str(resp.status), " - ">> \o resp.text)

\* Lines 232-235: the adapter chosen by provider name; with neither name
\* `result` stays unbound and line 238 raises.
CallAdapter(provider_name, api_key, resp) ==
    IF provider_name = "gemini" THEN call_gemini(api_key, resp)
    ELSE IF provider_name = "openrouter" THEN call_openrouter(api_key, resp)
    ELSE Raise(<<"UnboundLocalError">>)

(* ------------------------------------------------------------- responses *)

NoResponse ==
    [code |-> 0, body |-> "", providers |-> {}, valid_keys |-> <<>>, timestamp |-> 0]

\* The framework's response to an exception that leaves a view: status 500.
ServerErrorResponse ==
    [code |-> 500, body |-> "error", providers |-> {}, valid_keys |-> <<>>,
     timestamp |-> 0]

\* jsonify({'ok': True})
OkResponse ==
    [code |-> 200, body |-> "ok", providers |-> {}, valid_keys |-> <<>>,
     timestamp |-> 0]

NoResult == [ok |-> FALSE, val |-> None]

\* Line 226 without the strip() test.
IsBlankEmptyOnly(api_key) == api_key = ""

\* Line 226: `not api_key or api_key.strip() == ''`.
IsBlank(api_key) == api_key = "" \/ Strip(api_key) = ""

\* A count that leaves out the credentials marked failed.
ValidKeyCountUnfailed(ks) ==
    Cardinality({i \in 1..Len(ks) :
        ~IsBlank(ks[i]) /\ \A p \in Provider : ks[i] \notin failed_keys[p]})

\* Line 356: the entries of a key list that are not blank.
ValidKeyCount(ks) == Cardinality({i \in 1..Len(ks) : ~IsBlank(ks[i])})

\* datetime.utcnow() while a request is received: the clock of the model
\* advances with every request.
utcnow == served + 1

\* health(): the enabled providers, the count of non-blank entries of each,
\* and the time of the query.
HealthResponse ==
    [code |-> 200, body |-> "healthy",
     providers |-> {p \in Provider : active[p]},
     valid_keys |-> [p \in {q \in Provider : active[q]} |-> ValidKeyCount(keys[p])],
     timestamp |-> utcnow]

(* ------------------------------------------------------------------ init *)

\* No request is being served and no credential has failed.
Idle ==
    /\ failed_keys = [p \in Provider |-> {}]
    /\ pc = [r \in Req |-> "idle"]
    /\ update = [r \in Req |-> "none"]
    /\ pi = [r \in Req |-> 0]
    /\ ki = [r \in Req |-> 0]
    /\ exc = [r \in Req |-> None]
    /\ result = [r \in Req |-> NoResult]
    /\ response = [r \in Req |-> NoResponse]
    /\ trace = [r \in Req |-> <<>>]
    /\ startFailed = [r \in Req |-> [p \in Provider |-> {}]]
    /\ served = 0

\* The state after the module is loaded, for a registry of at most n entries.
Loaded(n) ==
    /\ image = NoImage
    /\ keys \in Registries(n)
    /\ active \in Flags
    /\ Idle

\* The state in which image_to_base64 is called with an image of some size,
\* no request being served.
InitImage ==
    /\ image \in {[stage |-> "bytes", decodable |-> d, size |-> sz, out |-> <<0, 0>>] :
                    d \in BOOLEAN, sz \in Sides \X Sides}
    /\ keys = [p \in Provider |-> <<"">>]
    /\ active = [p \in Provider |-> FALSE]
    /\ Idle

Init == Loaded(MaxEntries)

InitConc == Loaded(MaxEntriesConc)

(* --------------------------------------------------------------- webhook *)

\* A worker takes the next request; what the previous one left is dropped.
Receive(r, u) ==
    /\ pc[r] \in {"idle", "done"}
    /\ served < MaxRequests
    /\ served' = served + 1
    /\ update' = [update EXCEPT ![r] = u]
    /\ exc' = [exc EXCEPT ![r] = None]
    /\ result' = [result EXCEPT ![r] = NoResult]
    /\ ki' = [ki EXCEPT ![r] = 0]

\* The request ends with response `resp` after doing `tr`.
Finish(r, tr, resp) ==
    /\ pc' = [pc EXCEPT ![r] = "done"]
    /\ trace' = [trace EXCEPT ![r] = tr]
    /\ response' = [response EXCEPT ![r] = resp]

\* The request ends without entering extract_event_info.
Reply(r, tr, resp) ==
    /\ Finish(r, tr, resp)
    /\ pi' = [pi EXCEPT ![r] = 0]
    /\ startFailed' = [startFailed EXCEPT ![r] = [p \in Provider |-> {}]]

\* Line 330: the request enters extract_event_info after doing `tr`.
Dispatch(r, tr) ==
    /\ pc' = [pc EXCEPT ![r] = "loop_provider"]
    /\ trace' = [trace EXCEPT ![r] = tr]
    /\ response' = [response EXCEPT ![r] = NoResponse]
    /\ pi' = [pi EXCEPT ![r] = 1]
    /\ startFailed' = [startFailed EXCEPT ![r] = failed_keys]

\* Lines 253-254: an update without a message.
WebhookNoMessage(r) ==
    /\ Receive(r, "no_message")
    /\ Reply(r, <<>>, OkResponse)
    /\ UNCHANGED <<image, keys, active, failed_keys>>

\* Lines 251-257 and 340-342: an update that is no JSON object or whose
\* message has no chat raises, and the outer handler answers ok.
WebhookMalformed(r) ==
    /\ Receive(r, "malformed")
    /\ Reply(r, <<>>, OkResponse)
    /\ UNCHANGED <<image, keys, active, failed_keys>>

\* Lines 260-274: /start.
WebhookStart(r) ==
    /\ Receive(r, "start")
    /\ Reply(r, <<SendEvent(WelcomeText)>>, OkResponse)
    /\ UNCHANGED <<image, keys, active, failed_keys>>

\* Lines 277-297: /help.
WebhookHelp(r) ==
    /\ Receive(r, "help")
    /\ Reply(r, <<SendEvent(HelpText)>>, OkResponse)
    /\ UNCHANGED <<image, keys, active, failed_keys>>

\* A webhook without the handler of lines 340-342: the exception of the
\* download leaves the view and the framework answers 500.
WebhookPhotoDownloadUncaught(r) ==
    /\ Receive(r, "photo")
    /\ Reply(r, <<SendEvent(ProcessingImageText), DownloadEvent(FALSE)>>,
             ServerErrorResponse)
    /\ UNCHANGED <<image, keys, active, failed_keys>>

\* Lines 302-306 and 328-342 for a photo whose download raises: the outer
\* handler answers ok.
WebhookPhotoDownloadError(r) ==
    /\ Receive(r, "photo")
    /\ Reply(r, <<SendEvent(ProcessingImageText), DownloadEvent(FALSE)>>, OkResponse)
    /\ UNCHANGED <<image, keys, active, failed_keys>>

\* Lines 302-306, 328 and 338 for a photo: the notice, the download, the
\* conversion, and the dispatcher when there is a payload.
WebhookPhoto(r) ==
    /\ Receive(r, "photo")
    /\ \E image_bytes \in ImageBytes :
         LET base64_image == image_to_base64(image_bytes)
             tr == <<SendEvent(ProcessingImageText), DownloadEvent(TRUE),
                     ConvertEvent(base64_image)>>
         IN  IF Truthy(base64_image)
             THEN Dispatch(r, tr)
             ELSE Reply(r, tr, OkResponse)
    /\ UNCHANGED <<image, keys, active, failed_keys>>

\* Lines 311-314 for a PDF whose download raises.
WebhookPdfDownloadError(r) ==
    /\ Receive(r, "pdf")
    /\ Reply(r, <<SendEvent(ProcessingPdfText), DownloadEvent(FALSE)>>, OkResponse)
    /\ UNCHANGED <<image, keys, active, failed_keys>>

\* Lines 309-319 and 328 for a PDF document.
WebhookPdf(r) ==
    /\ Receive(r, "pdf")
    /\ \E pdf_bytes \in PdfBytes :
         LET base64_image == pdf_to_images(pdf_bytes)
             tr == <<SendEvent(ProcessingPdfText), DownloadEvent(TRUE),
                     ConvertEvent(base64_image)>>
         IN  IF ~Truthy(base64_image)
             THEN Reply(r, Append(tr, SendEvent(PdfFailedText)), OkResponse)
             ELSE Dispatch(r, tr)
    /\ UNCHANGED <<image, keys, active, failed_keys>>

\* Lines 320-322: a document that is not a PDF.
WebhookOtherDocument(r) ==
    /\ Receive(r, "other_document")
    /\ Reply(r, <<SendEvent(NotPdfText)>>, OkResponse)
    /\ UNCHANGED <<image, keys, active, failed_keys>>

\* Lines 323-325: neither photo nor document.
WebhookNoMedia(r) ==
    /\ Receive(r, "no_media")
    /\ Reply(r, <<SendEvent(NoMediaText)>>, OkResponse)
    /\ UNCHANGED <<image, keys, active, failed_keys>>

\* Lines 352-364: GET /health.
Health(r) ==
    /\ Receive(r, "health")
    /\ Reply(r, <<>>, HealthResponse)
    /\ UNCHANGED <<image, keys, active, failed_keys>>

(* ------------------------------------------------------------ normalizer *)

\* Lines 83 and 92-94: Image.open raises on bytes that are no image and
\* image_to_base64 returns None.
ImageOpenError ==
    /\ image.stage = "bytes"
    /\ ~image.decodable
    /\ image' = [image EXCEPT !.stage = "failed"]
    /\ UNCHANGED <<keys, active, failed_keys, pc, update, pi, ki, exc, result,
                   response, trace, startFailed, served>>

\* Lines 83-91: the image is opened, resized when too large, and saved.
ImageSave ==
    /\ image.stage = "bytes"
    /\ image.decodable
    /\ image' = [image EXCEPT !.stage = "saved", !.out = SavedSize(image.size)]
    /\ UNCHANGED <<keys, active, failed_keys, pc, update, pi, ki, exc, result,
                   response, trace, startFailed, served>>

(* ------------------------------------------------------------ dispatcher *)

\* provider_name and api_key of the running loops.
CurProvider(r) == providers_order[pi[r]]
CurKey(r) == keys[CurProvider(r)][ki[r]]

\* Line 221 ignoring the flag.
ProviderActiveAlways(provider_name) == TRUE

\* Line 221: provider['active'].
ProviderActive(provider_name) == active[provider_name]

\* Line 226 without its membership test: failed credentials are tried again.
ShouldSkipBlankOnly(provider_name, api_key) == IsBlank(api_key)

\* Line 226 with its membership test negated.
ShouldSkipUnfailed(provider_name, api_key) ==
    IsBlank(api_key) \/ api_key \notin failed_keys[provider_name]

\* Line 226: the candidates the key loop passes over.
ShouldSkip(provider_name, api_key) ==
    IsBlank(api_key) \/ api_key \in failed_keys[provider_name]

\* Line 242 left out: the failure is not recorded.
AddFailedNothing(fk, provider_name, api_key) == fk

\* Line 242 with one set shared by all providers.
AddFailedEverywhere(fk, provider_name, api_key) ==
    [q \in DOMAIN fk |-> fk[q] \cup {api_key}]

\* Line 242 as an assignment: the set keeps only the last failure.
AddFailedReplace(fk, provider_name, api_key) ==
    [fk EXCEPT ![provider_name] = {api_key}]

\* Line 242: failed_keys[provider_name].add(api_key).
AddFailed(fk, provider_name, api_key) ==
    [fk EXCEPT ![provider_name] = @ \cup {api_key}]

\* Lines 221-223: a provider that is not active is passed over.
ProviderSkipDisabled(r) ==
    /\ pc[r] = "loop_provider"
    /\ pi[r] <= Len(providers_order)
    /\ ~ProviderActive(CurProvider(r))
    /\ pi' = [pi EXCEPT ![r] = @ + 1]
    /\ UNCHANGED <<image, keys, active, failed_keys, pc, update, ki, exc, result,
                   response, trace, startFailed, served>>

\* Lines 219-225: an active provider's key loop begins.
ProviderEnter(r) ==
    /\ pc[r] = "loop_provider"
    /\ pi[r] <= Len(providers_order)
    /\ ProviderActive(CurProvider(r))
    /\ ki' = [ki EXCEPT ![r] = 1]
    /\ pc' = [pc EXCEPT ![r] = "loop_key"]
    /\ UNCHANGED <<image, keys, active, failed_keys, update, pi, exc, result,
                   response, trace, startFailed, served>>

\* Line 245: the provider loop is over and the error is raised to webhook.
AllProvidersFailed(r) ==
    /\ pc[r] = "loop_provider"
    /\ pi[r] > Len(providers_order)
    /\ result' = [result EXCEPT ![r] = Raise(AllFailedText)]
    /\ pc' = [pc EXCEPT ![r] = "raised"]
    /\ UNCHANGED <<image, keys, active, failed_keys, update, pi, ki, exc,
                   response, trace, startFailed, served>>

\* Lines 226-227: a blank or failed credential is passed over.
KeySkip(r) ==
    /\ pc[r] = "loop_key"
    /\ ki[r] <= Len(keys[CurProvider(r)])
    /\ ShouldSkip(CurProvider(r), CurKey(r))
    /\ ki' = [ki EXCEPT ![r] = @ + 1]
    /\ UNCHANGED <<image, keys, active, failed_keys, pc, update, pi, exc, result,
                   response, trace, startFailed, served>>

\* Lines 226-230: the credential passes the check and the try block begins.
KeyTry(r) ==
    /\ pc[r] = "loop_key"
    /\ ki[r] <= Len(keys[CurProvider(r)])
    /\ ~ShouldSkip(CurProvider(r), CurKey(r))
    /\ pc' = [pc EXCEPT ![r] = "call"]
    /\ UNCHANGED <<image, keys, active, failed_keys, update, pi, ki, exc, result,
                   response, trace, startFailed, served>>

\* A provider loop that does not advance: after the last credential the
\* same provider is entered again.
KeysDoneSameProvider(r) ==
    /\ pc[r] = "loop_key"
    /\ ki[r] > Len(keys[CurProvider(r)])
    /\ pc' = [pc EXCEPT ![r] = "loop_provider"]
    /\ UNCHANGED <<image, keys, active, failed_keys, update, pi, ki, exc, result,
                   response, trace, startFailed, served>>

\* Line 225: the key loop of a provider is over.
KeysDone(r) ==
    /\ pc[r] = "loop_key"
    /\ ki[r] > Len(keys[CurProvider(r)])
    /\ pi' = [pi EXCEPT ![r] = @ + 1]
    /\ pc' = [pc EXCEPT ![r] = "loop_provider"]
    /\ UNCHANGED <<image, keys, active, failed_keys, update, ki, exc, result,
                   response, trace, startFailed, served>>

\* AfterCall without the return of line 238: after a success the key loop
\* goes on with the next credential.
AfterCallNoReturn(r, out) ==
    IF out.ok
    THEN /\ result' = [result EXCEPT ![r] = Return(out.val)]
         /\ pc' = [pc EXCEPT ![r] = "loop_key"]
         /\ ki' = [ki EXCEPT ![r] = @ + 1]
         /\ UNCHANGED exc
    ELSE /\ exc' = [exc EXCEPT ![r] = out.val]
         /\ pc' = [pc EXCEPT ![r] = "except"]
         /\ UNCHANGED <<result, ki>>

\* A dispatcher without the handler of line 240: the adapter's exception
\* leaves the dispatcher as it is.
AfterCallPropagate(r, out) ==
    IF out.ok
    THEN /\ result' = [result EXCEPT ![r] = Return(out.val)]
         /\ pc' = [pc EXCEPT ![r] = "returned"]
         /\ UNCHANGED <<exc, ki>>
    ELSE /\ result' = [result EXCEPT ![r] = Raise(out.val)]
         /\ pc' = [pc EXCEPT ![r] = "raised"]
         /\ UNCHANGED <<exc, ki>>

\* Where the dispatcher goes after an adapter invocation returned `out`:
\* line 238 returns on success, line 240 handles any exception.
AfterCall(r, out) ==
    IF out.ok
    THEN /\ result' = [result EXCEPT ![r] = Return(out.val)]
         /\ pc' = [pc EXCEPT ![r] = "returned"]
         /\ UNCHANGED <<exc, ki>>
    ELSE /\ exc' = [exc EXCEPT ![r] = out.val]
         /\ pc' = [pc EXCEPT ![r] = "except"]
         /\ UNCHANGED <<result, ki>>

\* Lines 232-238: the adapter is invoked with the credential and answers.
Call(r) ==
    /\ pc[r] = "call"
    /\ \E resp \in Response(CurProvider(r), CurKey(r)) :
         LET out == CallAdapter(CurProvider(r), CurKey(r), resp)
         IN  /\ trace' = [trace EXCEPT ![r] = Append(@,
                    InvokeEvent(CurProvider(r), CurKey(r), out.ok,
                                IF out.ok THEN out.val ELSE <<>>,
                                CurKey(r) \in failed_keys[CurProvider(r)]))]
             /\ AfterCall(r, out)
    /\ UNCHANGED <<image, keys, active, failed_keys, update, pi,
                   response, startFailed, served>>

\* Lines 240-243: the credential is marked failed and the loop goes on.
MarkFailed(r) ==
    /\ pc[r] = "except"
    /\ failed_keys' = AddFailed(failed_keys, CurProvider(r), CurKey(r))
    /\ trace' = [trace EXCEPT ![r] = Append(@, AddEvent(CurProvider(r), CurKey(r)))]
    /\ exc' = [exc EXCEPT ![r] = None]
    /\ ki' = [ki EXCEPT ![r] = @ + 1]
    /\ pc' = [pc EXCEPT ![r] = "loop_key"]
    /\ UNCHANGED <<image, keys, active, update, pi, result, response, startFailed, served>>

\* Lines 331 and 332 exchanged: the confirmation is sent before the article.
WebhookRelayConfirmFirst(r) ==
    /\ pc[r] = "returned"
    /\ Finish(r, trace[r] \o <<SendEvent(SuccessText), SendEvent(result[r].val)>>,
              OkResponse)
    /\ UNCHANGED <<image, keys, active, failed_keys, update, pi, ki, exc, result,
                   startFailed, served>>

\* Lines 330-332 and 338: the article and the confirmation are sent.
WebhookRelay(r) ==
    /\ pc[r] = "returned"
    /\ Finish(r, trace[r] \o <<SendEvent(result[r].val), SendEvent(SuccessText)>>,
              OkResponse)
    /\ UNCHANGED <<image, keys, active, failed_keys, update, pi, ki, exc, result,
                   startFailed, served>>

\* Lines 333-338: the dispatcher's error is sent.
WebhookError(r) ==
    /\ pc[r] = "raised"
    /\ Finish(r, Append(trace[r], SendEvent(ErrorMsg(result[r].val))), OkResponse)
    /\ UNCHANGED <<image, keys, active, failed_keys, update, pi, ki, exc, result,
                   startFailed, served>>

(* ------------------------------------------------------- specifications *)

Step(r) ==
    \/ WebhookNoMessage(r)
    \/ WebhookMalformed(r)
    \/ WebhookStart(r)
    \/ WebhookHelp(r)
    \/ WebhookPhotoDownloadError(r)
    \/ WebhookPhoto(r)
    \/ WebhookPdfDownloadError(r)
    \/ WebhookPdf(r)
    \/ WebhookOtherDocument(r)
    \/ WebhookNoMedia(r)
    \/ Health(r)
    \/ ProviderSkipDisabled(r)
    \/ ProviderEnter(r)
    \/ AllProvidersFailed(r)
    \/ KeySkip(r)
    \/ KeyTry(r)
    \/ KeysDone(r)
    \/ Call(r)
    \/ MarkFailed(r)
    \/ WebhookRelay(r)
    \/ WebhookError(r)

\* One request at a time: every request runs to its response before the
\* next is received.
Next == Step(MainThread)

Spec == Init /\ [][Next]_vars

\* A threaded server: requests of two workers interleave at every step.
\* Requests one after another, the worker never stopping in the middle of a
\* request: every statement of the handlers completes, adapter calls
\* included (their HTTP requests carry timeouts, lines 140 and 201).
SpecFair == Init /\ [][Next]_vars /\ WF_vars(Next)

NextImage == ImageOpenError \/ ImageSave

SpecImage == InitImage /\ [][NextImage]_vars

NextConc == \E r \in Req : Step(r)

SpecConc == InitConc /\ [][NextConc]_vars

(* ---------------------------------------------------- what a request did *)

\* The adapter invocations of worker r's request, in order.
Invokes(r) == SelectSeq(trace[r], IsInvoke)

\* The positions of trace[r] holding events of kind ev.
EventsAt(r, ev) == {i \in 1..Len(trace[r]) : trace[r][i].ev = ev}

\* The request of worker r has an extract_event_info call that is over.
DispatcherEnded(r) ==
    \/ pc[r] \in {"returned", "raised"}
    \/ pc[r] = "done" /\ result[r] # NoResult

\* The (provider, credential) pairs of the adapter invocations, in order.
InvokedPairs(r) ==
    [i \in 1..Len(Invokes(r)) |-> <<Invokes(r)[i].prov, Invokes(r)[i].key>>]

\* A credential entry that is empty or whitespace only.
BlankCredential(k) == k \in {"", " "}

\* The candidates of provider p for the call of worker r: nothing when p is
\* disabled, else its entries in listed order that are neither blank nor
\* were in failed_keys[p] when the call started.
CandidatesOf(r, p) ==
    IF active[p]
    THEN LET ks == SelectSeq(keys[p],
                     LAMBDA k : ~BlankCredential(k) /\ k \notin startFailed[r][p])
         IN  [i \in 1..Len(ks) |-> <<p, ks[i]>>]
    ELSE <<>>

\* A sequence without the later repetitions of its elements.
RECURSIVE FirstOccurrences(_)
FirstOccurrences(s) ==
    IF s = <<>> THEN <<>>
    ELSE LET front == SubSeq(s, 1, Len(s) - 1)
         IN  IF \E i \in 1..Len(front) : front[i] = s[Len(s)]
             THEN FirstOccurrences(front)
             ELSE Append(FirstOccurrences(front), s[Len(s)])

\* The candidates of the call of worker r in the priority order gemini,
\* openrouter, each credential once.
EligibleInOrder(r) ==
    FirstOccurrences(CandidatesOf(r, "gemini") \o CandidatesOf(r, "openrouter"))

IsPrefix(a, b) == Len(a) <= Len(b) /\ SubSeq(b, 1, Len(a)) = a

(* ------------------------------------------------------------------- C1 *)

\* C1: with requests served one after another, no adapter invocation of an
\* extract_event_info call carries a credential that was in
\* failed_keys[provider] when the call started, or that the same call added
\* to it before the invocation.
C1_FailedKeyNeverInvoked ==
    \A r \in Req : \A i \in 1..Len(trace[r]) :
        IsInvoke(trace[r][i]) =>
            /\ trace[r][i].key \notin startFailed[r][trace[r][i].prov]
            /\ \A j \in 1..(i - 1) :
                 trace[r][j] # AddEvent(trace[r][i].prov, trace[r][i].key)

\* A call that started with a failed credential of a provider, passed over
\* it and invoked that provider's adapter with another credential.
C1_Witness ==
    \E r \in Req : \E i \in 1..Len(trace[r]) :
        /\ IsInvoke(trace[r][i])
        /\ startFailed[r][trace[r][i].prov] # {}
        /\ \E k \in 1..Len(keys[trace[r][i].prov]) :
             /\ keys[trace[r][i].prov][k] \in startFailed[r][trace[r][i].prov]
             /\ trace[r][i].prov = providers_order[pi[r]] => k < ki[r]

(* ------------------------------------------------------------------- C2 *)

\* C2: with requests interleaving at the skip check, the adapter call and
\* the add, no adapter invocation begins while its credential is a member
\* of failed_keys[provider].
C2_InvokeNeverOnFailedKey ==
    \A r \in Req : \A i \in 1..Len(trace[r]) :
        IsInvoke(trace[r][i]) => ~trace[r][i].flag
(* ------------------------------------------------------------------- C3 *)

\* C3: when extract_event_info returns, the candidates it invoked are the
\* eligible ones in priority order (gemini's listed order, then
\* openrouter's) up to the first whose call succeeded, every earlier one
\* failed, and the value returned is the text that successful call produced.
C3_ReturnsFirstSuccess ==
    \A r \in Req : result[r].ok =>
        LET inv == Invokes(r)
            n == Len(inv)
        IN  /\ n >= 1
            /\ IsPrefix(InvokedPairs(r), EligibleInOrder(r))
            /\ \A i \in 1..(n - 1) : inv[i].ev = "invoke_err"
            /\ inv[n].ev = "invoke_ok"
            /\ result[r].val = inv[n].val
            /\ result[r].val = GeneratedText(inv[n].prov, inv[n].key)

\* A call that started with a failed credential, tried at least two
\* candidates and returned the text of the last.
C3_Witness ==
    \E r \in Req :
        /\ result[r].ok
        /\ Len(Invokes(r)) >= 2
        /\ \E p \in Provider : startFailed[r][p] # {}

(* ------------------------------------------------------------------- C4 *)

\* C4: in one extract_event_info call no adapter invocation follows a
\* successful one, so at most one invocation succeeds.
C4_NothingAfterSuccess ==
    \A r \in Req :
        /\ Cardinality(EventsAt(r, "invoke_ok")) <= 1
        /\ \A i \in EventsAt(r, "invoke_ok") :
             \A j \in (i + 1)..Len(trace[r]) : ~IsInvoke(trace[r][j])

\* A finished request whose call succeeded with gemini's first credential
\* while an eligible credential of openrouter was left untried.
C4_Witness ==
    \E r \in Req :
        /\ pc[r] = "done"
        /\ Len(Invokes(r)) = 1
        /\ Invokes(r)[1].ev = "invoke_ok"
        /\ Invokes(r)[1].prov = "gemini"
        /\ CandidatesOf(r, "openrouter") # <<>>
(* ------------------------------------------------------------------- C5 *)

\* The error extract_event_info raises itself (line 245).
AllProvidersFailedError == Raise(AllFailedText)

\* C5: every failed adapter invocation, whatever made it fail, is handled
\* inside extract_event_info: the next thing the call does is add the
\* credential to failed_keys of that provider, before any other candidate
\* is invoked; the adapter's error is never what the call raises; and the
\* call goes on, so that it raises only after the last eligible candidate
\* failed.
C5_FailureMarksAndContinues ==
    \A r \in Req :
        /\ \A i \in EventsAt(r, "invoke_err") :
             IF i = Len(trace[r])
             THEN pc[r] = "except" /\ result[r] = NoResult
             ELSE /\ trace[r][i + 1] = AddEvent(trace[r][i].prov, trace[r][i].key)
                  /\ trace[r][i].key \in failed_keys[trace[r][i].prov]
        /\ (result[r] # NoResult /\ ~result[r].ok) =>
             /\ result[r] = AllProvidersFailedError
             /\ InvokedPairs(r) = EligibleInOrder(r)

\* A call that absorbed one failure, went on to another candidate and is
\* handling that one's failure, a 200 response without the nested fields.
C5_Witness ==
    \E r \in Req :
        /\ pc[r] = "except"
        /\ exc[r] = <<"KeyError">>
        /\ EventsAt(r, "add") # {}

(* ------------------------------------------------------------------- C6 *)

\* C6: a provider whose 'active' flag is false is never passed to an
\* adapter, whatever credentials it holds, and its failed_keys set stays as
\* it was at start, empty.
C6_DisabledNeverTried ==
    \A p \in Provider : ~active[p] =>
        /\ failed_keys[p] = {}
        /\ \A r \in Req : \A i \in 1..Len(trace[r]) :
             IsInvoke(trace[r][i]) => trace[r][i].prov # p

\* gemini is disabled and holds a usable credential; a call went past it
\* and invoked openrouter.
C6_Witness ==
    /\ ~active["gemini"]
    /\ \E i \in 1..Len(keys["gemini"]) : ~BlankCredential(keys["gemini"][i])
    /\ \E r \in Req : pc[r] = "done" /\ Invokes(r) # <<>>

(* ------------------------------------------------------------------- C7 *)

\* C7: a finished extract_event_info call raised the all-providers-failed
\* error exactly when none of its adapter invocations succeeded, and then
\* every eligible candidate was invoked; when there is no eligible
\* candidate (every provider disabled, every credential blank or already
\* failed) it raised without any adapter invocation.
C7_RaisesIffNoSuccess ==
    \A r \in Req : DispatcherEnded(r) =>
        /\ result[r] = AllProvidersFailedError <=> EventsAt(r, "invoke_ok") = {}
        /\ result[r] = AllProvidersFailedError => InvokedPairs(r) = EligibleInOrder(r)
        /\ EligibleInOrder(r) = <<>> =>
             result[r] = AllProvidersFailedError /\ Invokes(r) = <<>>

\* A call that raised without any adapter invocation although an enabled
\* provider holds a credential, which had failed before.
C7_Witness ==
    \E r \in Req :
        /\ pc[r] = "raised"
        /\ Invokes(r) = <<>>
        /\ \E p \in {"gemini", "openrouter"} : active[p] /\ startFailed[r][p] # {}

(* ------------------------------------------------------------------- C8 *)

\* The credentials of provider p that are not blank.
NonBlankKeys(p) == {keys[p][i] : i \in {j \in 1..Len(keys[p]) : ~BlankCredential(keys[p][j])}}

\* C8: a call that started with empty failed-key sets, with gemini and
\* openrouter enabled, in which every invocation of gemini failed and an
\* invocation of openrouter succeeded, returns that invocation's text;
\* failed_keys of gemini is then the set of its non-blank credentials and
\* failed_keys of openrouter the set of its credentials that were invoked
\* and failed in this call.
C8_FailoverToLaterProvider ==
    \A r \in Req :
        LET inv == Invokes(r)
            won == {i \in 1..Len(inv) : inv[i].ev = "invoke_ok" /\ inv[i].prov = "openrouter"}
        IN  ( /\ DispatcherEnded(r)
              /\ \A p \in Provider : startFailed[r][p] = {}
              /\ active["gemini"] /\ active["openrouter"]
              /\ \A i \in 1..Len(inv) : inv[i].prov = "gemini" => inv[i].ev = "invoke_err"
              /\ won # {} )
            => /\ \E i \in won : result[r] = Return(GeneratedText("openrouter", inv[i].key))
               /\ failed_keys["gemini"] = NonBlankKeys("gemini")
               /\ failed_keys["openrouter"] =
                    {inv[i].key : i \in {j \in 1..Len(inv) :
                        inv[j].prov = "openrouter" /\ inv[j].ev = "invoke_err"}}

\* gemini's two credentials failed and a credential of openrouter
\* succeeded.
C8_Witness ==
    \E r \in Req :
        /\ DispatcherEnded(r)
        /\ \A p \in Provider : startFailed[r][p] = {}
        /\ failed_keys["gemini"] = {"a", "b"}
        /\ result[r].ok
        /\ Invokes(r)[Len(Invokes(r))].prov = "openrouter"
(* ------------------------------------------------------------------- C9 *)

\* C9: failed_keys only grows, and it changes only in the step that handles
\* a failed adapter invocation inside extract_event_info, which adds that
\* invocation's credential to its provider's set: every other step (a
\* successful invocation, a skipped candidate, a conversion failure, /start,
\* /help, /health) leaves it unchanged.
C9_FailedKeysAddOnly ==
    [][ /\ \A p \in Provider : failed_keys[p] \subseteq failed_keys'[p]
        /\ failed_keys' # failed_keys =>
             \E r \in Req :
                 LET n == Len(trace[r])
                 IN  /\ pc[r] = "except"
                     /\ n >= 1
                     /\ trace[r][n].ev = "invoke_err"
                     /\ trace'[r] = Append(trace[r],
                                      AddEvent(trace[r][n].prov, trace[r][n].key))
                     /\ failed_keys' = [failed_keys EXCEPT
                                          ![trace[r][n].prov] = @ \cup {trace[r][n].key}]
      ]_vars

\* After two credentials of gemini failed, a /health query was answered
\* with both still in the set.
C9_Witness ==
    \E r \in Req :
        /\ pc[r] = "done"
        /\ update[r] = "health"
        /\ failed_keys["gemini"] = {"a", "b"}

(* ------------------------------------------------------------------ C10 *)

\* C10: a finished request whose conversion (image_to_base64 for a photo,
\* pdf_to_images for a PDF) returned None sent the user a message after the
\* conversion and made no adapter invocation.
C10_ConversionFailureInformsUser ==
    \A r \in Req : pc[r] = "done" =>
        \A i \in EventsAt(r, "convert") :
            trace[r][i].val = None =>
                /\ \E j \in (i + 1)..Len(trace[r]) : trace[r][j].ev = "send"
                /\ Invokes(r) = <<>>

(* ------------------------------------------------------------------ C11 *)

\* The texts with which an adapter can raise, over every provider, credential
\* and response.
AdapterErrors ==
    {CallAdapter(p, k, resp).val :
        <<p, k, resp>> \in {t \in Provider \X Cred \X UNION {Response(q, c) : q \in Provider, c \in Cred} :
                              ~CallAdapter(t[1], t[2], t[3]).ok}}

\* The texts request r has sent to the chat, in order.
Sent(r) == SelectSeq(trace[r], LAMBDA e : e.ev = "send")

\* A message built by line 333 around some error text.
IsErrorMessage(text) == Len(text) > 0 /\ text[1] = ErrorMsg(<<>>)[1]

\* C11: the error text of a failed adapter invocation is never sent to the
\* chat, neither bare nor wrapped in an error message; the only error message
\* a request sends wraps the dispatcher's all-failed error, and a request in
\* which some invocation succeeded has sent no error message when it ends.
C11_AdapterErrorsNotRelayed ==
    \A r \in Req :
        /\ \A i \in 1..Len(Sent(r)) :
              /\ Sent(r)[i].val \notin AdapterErrors
              /\ \A e \in AdapterErrors : Sent(r)[i].val # ErrorMsg(e)
              /\ IsErrorMessage(Sent(r)[i].val)
                    => Sent(r)[i].val = ErrorMsg(AllFailedText)
        /\ (pc[r] = "done" /\ EventsAt(r, "invoke_ok") # {})
              => \A i \in 1..Len(Sent(r)) : ~IsErrorMessage(Sent(r)[i].val)

\* A request ended after an invocation failed and a later one succeeded.
C11_Witness ==
    \E r \in Req :
        /\ pc[r] = "done"
        /\ \E i \in EventsAt(r, "invoke_err") : \E j \in EventsAt(r, "invoke_ok") : i < j
        /\ Len(Sent(r)) = 3

(* ------------------------------------------------------------------ C12 *)

\* The enabled providers of the static registry.
EnabledProviders == {p \in Provider : active[p]}

\* The number of entries of provider p that are not blank, duplicates counted.
NonBlankEntries(p) ==
    Cardinality({i \in 1..Len(keys[p]) : ~BlankCredential(keys[p][i])})

\* What /health answers when it is queried before any other request.
HealthAtStart ==
    [code |-> 200, body |-> "healthy",
     providers |-> EnabledProviders,
     valid_keys |-> [p \in EnabledProviders |-> NonBlankEntries(p)],
     timestamp |-> 1]

\* C12 as stated: every /health result is identical to the one given before
\* any request, whatever has been added to failed_keys since.
C12_HealthIdentical ==
    \A r \in Req :
        (pc[r] = "done" /\ update[r] = "health") => response[r] = HealthAtStart

\* C12, amended: apart from its timestamp, every /health result is a function
\* of the static registry alone: status 200 and "healthy", exactly the enabled
\* providers and, for each, the number of its non-blank entries, whatever
\* failed_keys holds.
C12_HealthFromRegistryOnly ==
    \A r \in Req :
        (pc[r] = "done" /\ update[r] = "health")
            => [response[r] EXCEPT !.timestamp = 1] = HealthAtStart

\* /health answered after a credential of an enabled provider with two
\* non-blank entries was marked failed.
C12_Witness ==
    \E r \in Req : \E p \in EnabledProviders :
        /\ pc[r] = "done" /\ update[r] = "health"
        /\ failed_keys[p] # {}
        /\ response[r].valid_keys[p] = 2
        /\ response[r].timestamp > 1

(* ------------------------------------------------------------------ C13 *)

Longer(size) == IF size[1] >= size[2] THEN size[1] ELSE size[2]
Shorter(size) == IF size[1] >= size[2] THEN size[2] ELSE size[1]

\* C13: image_to_base64 saves an image whose width and height are both at
\* most 2000 with its dimensions unchanged; an image with width or height
\* above 2000 is saved with its longer side exactly 2000, the same side being
\* the longer one, and its shorter side less than 1 away from the original
\* shorter side times 2000 / longer side.
C13_NormalizedSize ==
    image.stage = "saved" =>
        IF image.size[1] <= MaxSide /\ image.size[2] <= MaxSide
        THEN image.out = image.size
        ELSE /\ Longer(image.out) = MaxSide
             /\ image.size[1] >= image.size[2] => image.out[1] = MaxSide
             /\ image.size[2] >= image.size[1] => image.out[2] = MaxSide
             /\ Abs(Shorter(image.out) * Longer(image.size)
                      - MaxSide * Shorter(image.size)) < Longer(image.size)

\* An image with only its width above the limit was saved with a smaller
\* height that is not a whole multiple of the scale.
C13_Witness ==
    /\ image.stage = "saved"
    /\ image.size[1] > MaxSide /\ image.size[2] < MaxSide
    /\ image.out[2] < image.size[2]
    /\ (MaxSide * image.size[2]) % image.size[1] # 0

(* ------------------------------------------------------------------ C14 *)

\* The enabled providers of the priority order.
EnabledInOrder ==
    {providers_order[i] : i \in {j \in 1..Len(providers_order) : active[providers_order[j]]}}

\* C14: with calls of extract_event_info interleaving freely, a call that has
\* ended either returned the text of a successful adapter invocation of its
\* own or raised the all-providers-failed error, and when it raised, every
\* non-blank credential of every enabled provider of the priority order is
\* in failed_keys.
C14_ConcurrentCallsEndProperly ==
    \A r \in Req : DispatcherEnded(r) =>
        \/ /\ result[r].ok
           /\ \E i \in EventsAt(r, "invoke_ok") : trace[r][i].val = result[r].val
        \/ /\ result[r] = AllProvidersFailedError
           /\ \A p \in EnabledInOrder : NonBlankKeys(p) \subseteq failed_keys[p]

\* A call raised although it never invoked some credential that was not
\* failed when it started: the other worker marked it meanwhile; and the
\* other worker's call returned a text.
C14_Witness ==
    \E r \in Req : \E o \in Req \ {r} :
        /\ pc[r] = "raised"
        /\ \E p \in EnabledInOrder : \E k \in NonBlankKeys(p) :
              /\ k \notin startFailed[r][p]
              /\ \A i \in 1..Len(Invokes(r)) : InvokedPairs(r)[i] # <<p, k>>
        /\ DispatcherEnded(o) /\ result[o].ok

(* ------------------------------------------------------------------ C15 *)

\* Request r is a finished photo request whose call had two eligible
\* candidates of one provider first in order, invoked the first, which
\* failed, and the second, which succeeded.
FirstFailsSecondSucceeds(r) ==
    /\ pc[r] = "done"
    /\ update[r] = "photo"
    /\ Len(EligibleInOrder(r)) >= 2
    /\ EligibleInOrder(r)[1][1] = EligibleInOrder(r)[2][1]
    /\ \E i \in EventsAt(r, "invoke_err") :
          <<trace[r][i].prov, trace[r][i].key>> = EligibleInOrder(r)[1]
    /\ \E j \in EventsAt(r, "invoke_ok") :
          <<trace[r][j].prov, trace[r][j].key>> = EligibleInOrder(r)[2]

\* C15: in a photo request where the first eligible credential of the first
\* provider fails and the second succeeds, the events are, in this order and
\* with no other adapter invocation, message or addition: the processing
\* notice is sent, the image is downloaded and converted, the first credential
\* is attempted, it is added to failed_keys, the second credential is
\* attempted, the text the adapter returned is sent as it is, the success
\* confirmation is sent.
C15_FailoverEventOrder ==
    \A r \in Req : FirstFailsSecondSucceeds(r) =>
        LET p == EligibleInOrder(r)[1][1]
            k1 == EligibleInOrder(r)[1][2]
            k2 == EligibleInOrder(r)[2][2]
            text == CallAdapter(p, k2, [kind |-> "http", status |-> 200,
                                        wellformed |-> TRUE,
                                        text |-> GeneratedText(p, k2)]).val
        IN  /\ trace[r] = <<SendEvent(ProcessingImageText),
                            DownloadEvent(TRUE),
                            ConvertEvent(image_to_base64([decodable |-> TRUE])),
                            InvokeEvent(p, k1, FALSE, <<>>, FALSE),
                            AddEvent(p, k1),
                            InvokeEvent(p, k2, TRUE, text, FALSE),
                            SendEvent(text),
                            SendEvent(SuccessText)>>
            /\ k1 \in failed_keys[p]
            /\ response[r] = OkResponse

\* Such a request with gemini as the provider while openrouter, enabled and
\* holding a credential, was not attempted.
C15_Witness ==
    \E r \in Req :
        /\ FirstFailsSecondSucceeds(r)
        /\ EligibleInOrder(r)[1][1] = "gemini"
        /\ active["openrouter"] /\ NonBlankKeys("openrouter") # {}

(* ------------------------------------------------------------------ C16 *)

\* Worker r is inside extract_event_info.
InDispatcher(r) == pc[r] \in {"loop_provider", "loop_key", "call", "except"}

\* The distinct non-blank credentials of the enabled providers of the
\* priority order, as (provider, credential) pairs.
DistinctUsable ==
    UNION {{<<p, k>> : k \in NonBlankKeys(p)} : p \in EnabledInOrder}

\* C16: within one call no (provider, credential) pair is invoked twice, also
\* when the credential is listed more than once, so a call makes at most as
\* many invocations as there are distinct non-blank credentials of enabled
\* providers in the priority order; and every call that has begun ends, by
\* returning or by raising.
C16_TerminatesInvokingEachOnce ==
    /\ [](\A r \in Req :
            /\ \A i, j \in 1..Len(Invokes(r)) :
                  InvokedPairs(r)[i] = InvokedPairs(r)[j] => i = j
            /\ Len(Invokes(r)) <= Cardinality(DistinctUsable))
    /\ \A r \in Req : InDispatcher(r) ~> DispatcherEnded(r)

\* A call ended after invoking every distinct usable credential once, one of
\* which is listed twice.
C16_Witness ==
    \E r \in Req :
        /\ DispatcherEnded(r)
        /\ Len(Invokes(r)) = Cardinality(DistinctUsable)
        /\ \E p \in EnabledInOrder : NonBlankEntries(p) > Cardinality(NonBlankKeys(p))

(* ------------------------------------------------------------------ C17 *)

\* Every non-blank credential of every enabled provider of the priority
\* order is in the sets fk.
Exhausted(fk) == \A p \in EnabledInOrder : NonBlankKeys(p) \subseteq fk[p]

\* C17: a call of extract_event_info that begins when every non-blank
\* credential of every enabled provider is in failed_keys makes no adapter
\* invocation and ends by raising the all-providers-failed error; and once
\* failed_keys holds them all it does so in every later state.
C17_ExhaustionAbsorbing ==
    /\ [](\A r \in Req :
            ((InDispatcher(r) \/ DispatcherEnded(r)) /\ Exhausted(startFailed[r]))
                => /\ Invokes(r) = <<>>
                   /\ DispatcherEnded(r) => result[r] = AllProvidersFailedError)
    /\ [][Exhausted(failed_keys) => Exhausted(failed_keys')]_vars

\* A request ended with the error message and no invocation, its call having
\* begun after the credentials of an enabled provider had all failed in an
\* earlier request.
C17_Witness ==
    \E r \in Req :
        /\ pc[r] = "done"
        /\ result[r] = AllProvidersFailedError
        /\ Invokes(r) = <<>>
        /\ Exhausted(startFailed[r])
        /\ \E p \in EnabledInOrder : startFailed[r][p] # {}
        /\ Len(Sent(r)) = 2 /\ Sent(r)[2].val = ErrorMsg(AllFailedText)

(* ------------------------------------------------------------------ C18 *)

\* The last thing worker r did is an adapter invocation with credential k of
\* provider p that failed, whose exception is being handled.
JustFailed(r, p, k) ==
    /\ pc[r] = "except"
    /\ trace[r] # <<>>
    /\ LET e == trace[r][Len(trace[r])]
       IN  e.ev = "invoke_err" /\ e.prov = p /\ e.key = k

\* C18: in every reachable state failed_keys[p] holds only non-blank entries
\* of the credential list of p, the set of a provider that is disabled or not
\* in the priority order is empty, and a credential enters failed_keys[p]
\* only in the step that handles a failed adapter invocation of p with it.
C18_FailedKeysWellFormed ==
    /\ [](\A p \in Provider :
            /\ failed_keys[p] \subseteq NonBlankKeys(p)
            /\ p \notin EnabledInOrder => failed_keys[p] = {})
    /\ [][\A p \in Provider : \A k \in failed_keys'[p] \ failed_keys[p] :
            \E r \in Req : JustFailed(r, p, k)]_vars

\* A provider with a blank entry has a failed credential while groq, which
\* holds a credential, has none.
C18_Witness ==
    /\ \E p \in EnabledInOrder :
          /\ failed_keys[p] # {}
          /\ \E i \in 1..Len(keys[p]) : BlankCredential(keys[p][i])
    /\ NonBlankKeys("groq") # {}
    /\ failed_keys["groq"] = {}

(* ------------------------------------------------------------------ C19 *)

\* The updates that are answered with one message and nothing else.
OneMessageUpdates == {"start", "help", "other_document", "no_media"}

\* C19: every webhook invocation ends with the ok response, also when the
\* download raised, the conversion failed, the dispatcher raised or nothing
\* could be read from the update; a request that entered the dispatcher goes
\* on to that end; and a /start, a /help, a document that is no PDF, or a
\* message with neither photo nor document causes exactly one message, no
\* download, no conversion and no adapter invocation.
C19_AlwaysAcknowledged ==
    /\ [](\A r \in Req :
            (pc[r] = "done" /\ update[r] # "health") =>
                /\ response[r] = OkResponse
                /\ update[r] \in OneMessageUpdates =>
                     Len(trace[r]) = 1 /\ trace[r][1].ev = "send")
    /\ \A r \in Req : (InDispatcher(r) \/ pc[r] \in {"returned", "raised"})
                            ~> (pc[r] = "done" /\ response[r] = OkResponse)

\* A photo request whose download raised was answered ok after its notice,
\* and before it a request was answered ok after its dispatcher had raised.
C19_Witness ==
    \E r \in Req :
        /\ pc[r] = "done" /\ update[r] = "photo"
        /\ response[r] = OkResponse
        /\ trace[r] = <<SendEvent(ProcessingImageText), DownloadEvent(FALSE)>>
        /\ \E p \in EnabledInOrder : failed_keys[p] # {}

====
